---- MODULE Spec2Model ----
(***************************************************************************)
(* Model of scripts/run_cmake_precommit.py: main() runs the platform's     *)
(* dependency installer as a child process, tolerating a non-zero exit     *)
(* with a warning, and then runs the cmake configuration command, whose    *)
(* failure is fatal.  The host (platform, search path, files) is chosen    *)
(* in Init; the children's exit codes are chosen when they exit.           *)
(***************************************************************************)
EXTENDS Integers, Sequences, FiniteSets

\* Child exit codes range over 0..MaxExitCode.
MaxExitCode == 3

ExitCodes == 0..MaxExitCode

\* result.returncode before any child has completed.
NoCode == -1

\* Values platform.system() may return.
Systems == {"Windows", "Linux", "Darwin"}

\* Path(__file__).resolve().parent.parent, rendered as a string.
REPO_ROOT == "REPO_ROOT"

\* pathlib's "/" operator followed by str().
PathJoin(dir, name) == dir \o "/" \o name

WARNING == "Skipping dependency installation for pre-commit: installer failed. Run scripts/install_dev_dependencies.* manually if toolchain is missing.\n"

TRACEBACK == "Traceback (most recent call last):"

\* Exit status of the interpreter when main() returns / when an exception
\* leaves the module uncaught.
EXIT_OK == 0

EXIT_UNCAUGHT == 1

VARIABLES
    system,           \* platform.system() of the host
    pwshOnPath,       \* a pwsh executable is on the search path
    powershellOnPath, \* a powershell executable is on the search path
    shExecutable,     \* scripts/install_dev_dependencies.sh exists and is executable
    cmakeOnPath,      \* a cmake executable is on the search path
    pc,               \* position of the single thread of control
    caller,           \* the function that called run()
    command,          \* run()'s command argument
    allow_failure,    \* run()'s allow_failure argument
    returncode,       \* result.returncode of the last completed child
    running,          \* commands of the child processes currently alive
    exception,        \* the exception propagating, or NoException
    calls,            \* history: one record per completed call of run()
    trace,            \* history: observable events in order
    stderr,           \* lines written to the error stream
    exitStatus        \* exit status of the process, NoCode until it ends

env == <<system, pwshOnPath, powershellOnPath, shExecutable, cmakeOnPath>>

vars == <<system, pwshOnPath, powershellOnPath, shExecutable, cmakeOnPath,
          pc, caller, command, allow_failure, returncode, running,
          exception, calls, trace, stderr, exitStatus>>

NoException == [type |-> "None", returncode |-> NoCode, cmd |-> <<>>]

CalledProcessError(code, cmd) ==
    [type |-> "CalledProcessError", returncode |-> code, cmd |-> cmd]

OSError(cmd) == [type |-> "OSError", returncode |-> NoCode, cmd |-> cmd]

\* shutil.which(name): truthy iff the executable is found on the search path.
which(name) ==
    CASE name = "pwsh" -> pwshOnPath
      [] name = "powershell" -> powershellOnPath
      [] name = "cmake" -> cmakeOnPath
      [] OTHER -> FALSE

\* Whether the operating system can start a child for the command: a bare
\* program name is resolved on the search path, a path is executed directly.
Launchable(cmd) ==
    IF cmd[1] \in {"pwsh", "powershell", "cmake"}
    THEN which(cmd[1])
    ELSE cmd[1] = PathJoin(PathJoin(REPO_ROOT, "scripts"), "install_dev_dependencies.sh")
         /\ shExecutable

\* InstallerCommand with the test narrowed to one non-Windows platform.
InstallerCommandLinuxOnly(sys, pwshFound) ==
    LET scripts_dir == PathJoin(REPO_ROOT, "scripts") IN
    IF sys # "Linux"
    THEN LET installer == PathJoin(scripts_dir, "install_dev_dependencies.ps1")
             shell == IF pwshFound THEN "pwsh" ELSE "powershell"
         IN <<shell, "-NoProfile", "-ExecutionPolicy", "Bypass", "-File", installer>>
    ELSE LET installer == PathJoin(scripts_dir, "install_dev_dependencies.sh")
         IN <<installer>>

\* InstallerCommand with the fallback shell looked up as well.
InstallerCommandProbeBoth(sys, pwshFound) ==
    LET scripts_dir == PathJoin(REPO_ROOT, "scripts") IN
    IF sys = "Windows"
    THEN LET installer == PathJoin(scripts_dir, "install_dev_dependencies.ps1")
             shell == IF pwshFound /\ ~which("powershell") THEN "pwsh" ELSE "powershell"
         IN <<shell, "-NoProfile", "-ExecutionPolicy", "Bypass", "-File", installer>>
    ELSE LET installer == PathJoin(scripts_dir, "install_dev_dependencies.sh")
         IN <<installer>>

\* install_dependencies, lines 19-27: the installer command.
InstallerCommand(sys, pwshFound) ==
    LET scripts_dir == PathJoin(REPO_ROOT, "scripts") IN
    IF sys = "Windows"
    THEN LET installer == PathJoin(scripts_dir, "install_dev_dependencies.ps1")
             shell == IF pwshFound THEN "pwsh" ELSE "powershell"
         IN <<shell, "-NoProfile", "-ExecutionPolicy", "Bypass", "-File", installer>>
    ELSE LET installer == PathJoin(scripts_dir, "install_dev_dependencies.sh")
         IN <<installer>>

\* CmakeCommand without the compile-commands export.
CmakeCommandNoExport == <<"cmake", "-Bbuild">>

\* main, line 39: the configuration command.
CmakeCommand == <<"cmake", "-Bbuild", "-DCMAKE_EXPORT_COMPILE_COMMANDS=ON">>

\* SpawnRaises with the launch error swallowed under allow_failure.
SpawnRaisesUnlessAllowed(launchable, allowFailure) == ~launchable /\ ~allowFailure

\* run, line 12: subprocess.run raises OSError when the child cannot be
\* started, whatever allow_failure is.
SpawnRaises(launchable, allowFailure) == ~launchable

\* RunRaises ignoring allow_failure.
RunRaisesAlways(code, allowFailure) == code # 0

\* RunRaises with the flag inverted.
RunRaisesInverted(code, allowFailure) == code # 0 /\ allowFailure

\* RunRaises with the check dropped.
RunRaisesNever(code, allowFailure) == FALSE

\* run, line 13: the condition under which run raises CalledProcessError.
RunRaises(code, allowFailure) == code # 0 /\ ~allowFailure

\* NeedsWarning without the test of the return code.
NeedsWarningAlways(code) == TRUE

\* install_dependencies, line 30: the condition for the warning.
NeedsWarning(code) == code # 0

\* ProcessExitStatus as if main() ended in sys.exit(error.returncode).
ProcessExitStatusPropagated(exc) ==
    CASE exc.type = "None" -> EXIT_OK
      [] exc.type = "CalledProcessError" -> exc.returncode
      [] OTHER -> EXIT_UNCAUGHT

\* The interpreter's exit status for the exception that left main().
ProcessExitStatus(exc) ==
    IF exc.type = "None" THEN EXIT_OK ELSE EXIT_UNCAUGHT

Init ==
    /\ system \in Systems
    /\ pwshOnPath \in BOOLEAN
    /\ powershellOnPath \in BOOLEAN
    /\ shExecutable \in BOOLEAN
    /\ cmakeOnPath \in BOOLEAN
    /\ pc = "install_dependencies"
    /\ caller = "main"
    /\ command = <<>>
    /\ allow_failure = FALSE
    /\ returncode = NoCode
    /\ running = {}
    /\ exception = NoException
    /\ calls = <<>>
    /\ trace = <<>>
    /\ stderr = <<>>
    /\ exitStatus = NoCode

\* main line 38 and install_dependencies lines 19-29: read the platform,
\* build the installer command and call run(command, allow_failure=True).
InstallSelect ==
    /\ pc = "install_dependencies"
    /\ command' = InstallerCommand(system, which("pwsh"))
    /\ allow_failure' = TRUE
    /\ caller' = "install_dependencies"
    /\ trace' = Append(trace, [ev |-> "select", cmd |-> command'])
    /\ pc' = "run_spawn"
    /\ UNCHANGED <<env, returncode, running, exception, calls, stderr, exitStatus>>

\* RunSpawn as if the child were started without waiting for it.
RunSpawnNoWait ==
    /\ pc = "run_spawn"
    /\ ~SpawnRaises(Launchable(command), allow_failure)
    /\ running' = running \cup {command}
    /\ trace' = Append(trace, [ev |-> "start", cmd |-> command])
    /\ returncode' = 0
    /\ pc' = "run_check"
    /\ UNCHANGED <<env, caller, command, allow_failure, exception,
                   calls, stderr, exitStatus>>

\* run line 12: subprocess.run starts the child and blocks on it.
RunSpawn ==
    /\ pc = "run_spawn"
    /\ ~SpawnRaises(Launchable(command), allow_failure)
    /\ running' = running \cup {command}
    /\ trace' = Append(trace, [ev |-> "start", cmd |-> command])
    /\ pc' = "run_wait"
    /\ UNCHANGED <<env, caller, command, allow_failure, returncode, exception,
                   calls, stderr, exitStatus>>

\* run line 12: the child cannot be started; OSError leaves run().
RunSpawnFails ==
    /\ pc = "run_spawn"
    /\ SpawnRaises(Launchable(command), allow_failure)
    /\ exception' = OSError(command)
    /\ calls' = Append(calls, [cmd |-> command, allow_failure |-> allow_failure,
                               launched |-> FALSE, returncode |-> NoCode,
                               raised |-> exception'])
    /\ trace' = Append(trace, [ev |-> "spawn_failed", cmd |-> command])
    /\ pc' = "uncaught"
    /\ UNCHANGED <<env, caller, command, allow_failure, returncode, running,
                   stderr, exitStatus>>

\* run line 12: the child exits with some code and subprocess.run returns.
ChildExit ==
    /\ pc = "run_wait"
    /\ \E code \in ExitCodes :
          /\ returncode' = code
          /\ trace' = Append(trace, [ev |-> "exit", cmd |-> command])
    /\ running' = running \ {command}
    /\ pc' = "run_check"
    /\ UNCHANGED <<env, caller, command, allow_failure, exception, calls,
                   stderr, exitStatus>>

\* run lines 13-14: raise CalledProcessError(result.returncode, command).
RunRaise ==
    /\ pc = "run_check"
    /\ RunRaises(returncode, allow_failure)
    /\ exception' = CalledProcessError(returncode, command)
    /\ calls' = Append(calls, [cmd |-> command, allow_failure |-> allow_failure,
                               launched |-> TRUE, returncode |-> returncode,
                               raised |-> exception'])
    /\ pc' = "uncaught"
    /\ UNCHANGED <<env, caller, command, allow_failure, returncode, running,
                   trace, stderr, exitStatus>>

\* run lines 13-15: return result to the caller.
RunReturn ==
    /\ pc = "run_check"
    /\ ~RunRaises(returncode, allow_failure)
    /\ calls' = Append(calls, [cmd |-> command, allow_failure |-> allow_failure,
                               launched |-> TRUE, returncode |-> returncode,
                               raised |-> NoException])
    /\ pc' = IF caller = "install_dependencies" THEN "install_check" ELSE "main_return"
    /\ UNCHANGED <<env, caller, command, allow_failure, returncode, running,
                   exception, trace, stderr, exitStatus>>

\* install_dependencies lines 30-34: warn when the installer failed, then
\* return to main.
InstallCheck ==
    /\ pc = "install_check"
    /\ IF NeedsWarning(returncode)
       THEN /\ stderr' = Append(stderr, WARNING)
            /\ trace' = Append(trace, [ev |-> "warning", cmd |-> command])
       ELSE UNCHANGED <<stderr, trace>>
    /\ pc' = "main_cmake"
    /\ UNCHANGED <<env, caller, command, allow_failure, returncode, running,
                   exception, calls, exitStatus>>

\* main line 39: call run(["cmake", ...]) with the default allow_failure.
MainCmake ==
    /\ pc = "main_cmake"
    /\ command' = CmakeCommand
    /\ allow_failure' = FALSE
    /\ caller' = "main"
    /\ pc' = "run_spawn"
    /\ UNCHANGED <<env, returncode, running, exception, calls, trace, stderr,
                   exitStatus>>

\* lines 42-43: main() returned; the interpreter exits.
MainReturn ==
    /\ pc = "main_return"
    /\ exitStatus' = ProcessExitStatus(exception)
    /\ pc' = "done"
    /\ UNCHANGED <<env, caller, command, allow_failure, returncode, running,
                   exception, calls, trace, stderr>>

\* lines 42-43: an exception left main(); the interpreter prints the
\* traceback to the error stream and exits.
Uncaught ==
    /\ pc = "uncaught"
    /\ stderr' = Append(stderr, TRACEBACK)
    /\ exitStatus' = ProcessExitStatus(exception)
    /\ pc' = "done"
    /\ UNCHANGED <<env, caller, command, allow_failure, returncode, running,
                   exception, calls, trace>>

Next ==
    \/ InstallSelect
    \/ RunSpawn
    \/ RunSpawnFails
    \/ ChildExit
    \/ RunRaise
    \/ RunReturn
    \/ InstallCheck
    \/ MainCmake
    \/ MainReturn
    \/ Uncaught

Spec == Init /\ [][Next]_vars

----------------------------------------------------------------------------
\* Vocabulary of the properties.

PS1_PATH == "REPO_ROOT/scripts/install_dev_dependencies.ps1"

SH_PATH == "REPO_ROOT/scripts/install_dev_dependencies.sh"

IsCmake(cmd) == cmd # <<>> /\ cmd[1] = "cmake"

IsInstaller(cmd) == cmd # <<>> /\ cmd[1] # "cmake"

Indices(seq) == 1..Len(seq)

\* The calls of run() made for the installer and for cmake.
InstallerCalls == {i \in Indices(calls) : IsInstaller(calls[i].cmd)}

CmakeCalls == {i \in Indices(calls) : IsCmake(calls[i].cmd)}

\* Positions in the trace of an event of a kind for a kind of command.
InstallerEvents(kind) ==
    {i \in Indices(trace) : trace[i].ev = kind /\ IsInstaller(trace[i].cmd)}

CmakeEvents(kind) ==
    {i \in Indices(trace) : trace[i].ev = kind /\ IsCmake(trace[i].cmd)}

WarningCount == Cardinality({i \in Indices(stderr) : stderr[i] = WARNING})

InstallerExited == InstallerEvents("exit") # {}

\* The installer child ran and exited non-zero.
InstallerFailed ==
    \E i \in InstallerCalls : calls[i].launched /\ calls[i].returncode # 0

\* The cmake child ran and exited non-zero / zero.
CmakeFailed ==
    \E i \in CmakeCalls : calls[i].launched /\ calls[i].returncode # 0

CmakeSucceeded ==
    \E i \in CmakeCalls : calls[i].launched /\ calls[i].returncode = 0

\* The host cannot start the installer command of its platform.
InstallerUnavailable ==
    IF system = "Windows"
    THEN ~pwshOnPath /\ ~powershellOnPath
    ELSE ~shExecutable

----------------------------------------------------------------------------
\* C1: once the installer child has been launched and has exited, with any
\* exit code, main() goes on to run the cmake command, and the exit status
\* of the finished process is a function of cmake's outcome alone: 0 when
\* cmake exited 0, 1 otherwise, whatever the installer's exit code was.
InstallerExitCodeIgnored ==
    (pc = "done" /\ InstallerExited) =>
        /\ CmakeCalls # {}
        /\ exitStatus = IF CmakeSucceeded THEN 0 ELSE 1

InstallerExitCodeIgnoredWitness ==
    /\ pc = "done"
    /\ InstallerFailed
    /\ CmakeSucceeded
    /\ exitStatus = 0

\* C2: when the cmake child exits non-zero the run is fatal: the process
\* ends with a non-zero status, nothing is started or written by the script
\* after cmake's exit, and no warning follows the start of cmake.
CmakeFailureFatal ==
    CmakeFailed =>
        /\ pc \in {"uncaught", "done"}
        /\ pc = "done" => exitStatus > 0
        /\ \A i \in CmakeEvents("exit") : i = Len(trace)
        /\ \A i \in CmakeEvents("start") :
              \A w \in Indices(trace) : trace[w].ev = "warning" => w < i
        /\ WarningCount = (IF InstallerFailed THEN 1 ELSE 0)

CmakeFailureFatalWitness ==
    /\ pc = "done"
    /\ CmakeFailed
    /\ ~InstallerFailed
    /\ WarningCount = 0
    /\ exitStatus > 0

\* C3 as stated: the exit status of the process equals cmake's exit code,
\* for every non-zero code as well as for 0.
CmakeExitCodePropagated ==
    pc = "done" =>
        \A i \in CmakeCalls : calls[i].launched => exitStatus = calls[i].returncode

\* C3: when cmake exits with non-zero code c the process ends with status 1,
\* the interpreter's status for the uncaught CalledProcessError that carries
\* c and the cmake command; when cmake exits 0 the process ends with 0.
CmakeFailureExitsOne ==
    pc = "done" =>
        \A i \in CmakeCalls : calls[i].launched =>
            IF calls[i].returncode = 0
            THEN exitStatus = 0
            ELSE /\ exitStatus = 1
                 /\ exception = CalledProcessError(calls[i].returncode, calls[i].cmd)

CmakeFailureExitsOneWitness ==
    /\ pc = "done"
    /\ \E i \in CmakeCalls : calls[i].launched /\ calls[i].returncode = 2
    /\ exitStatus = 1

\* C4: the warning line is on the error stream at most once, only after the
\* installer child exited non-zero, and, once install_dependencies is over,
\* exactly once if it did; a failure of cmake alone writes none.
WarningIffInstallerFailed ==
    /\ WarningCount <= 1
    /\ WarningCount = 1 => InstallerFailed
    /\ (InstallerFailed /\ pc \notin {"install_check"}) => WarningCount = 1
    /\ (CmakeFailed /\ ~InstallerFailed) => WarningCount = 0

WarningIffInstallerFailedWitness ==
    /\ pc = "done"
    /\ \E i \in InstallerCalls : calls[i].launched /\ calls[i].returncode = 1
    /\ CmakeSucceeded
    /\ WarningCount = 1
    /\ exitStatus = 0

\* C5: on a host that cannot start the installer command, no child is ever
\* started (cmake included), no warning is written, and the process ends
\* with a non-zero status.
InstallerLaunchFailureFatal ==
    InstallerUnavailable =>
        /\ running = {}
        /\ \A i \in Indices(trace) : trace[i].ev # "start"
        /\ CmakeCalls = {}
        /\ WarningCount = 0
        /\ pc \notin {"run_wait", "run_check", "install_check", "main_cmake", "main_return"}
        /\ pc = "done" => exitStatus > 0

InstallerLaunchFailureFatalWitness ==
    /\ InstallerUnavailable
    /\ pc = "done"
    /\ exception.type = "OSError"
    /\ IsInstaller(exception.cmd)
    /\ exitStatus = 1

\* C6: exactly one installer command is selected per run, by the platform
\* alone: on Windows a shell with -NoProfile -ExecutionPolicy Bypass -File
\* and the .ps1 installer, on any other platform the .sh installer as the
\* only token; every installer child started is the selected command, so
\* the .ps1 and the .sh installer are never both invoked.
InstallerChosenByPlatform ==
    /\ Cardinality(InstallerEvents("select")) = (IF pc = "install_dependencies" THEN 0 ELSE 1)
    /\ CmakeEvents("select") = {}
    /\ \A i \in InstallerEvents("select") :
          IF system = "Windows"
          THEN /\ Len(trace[i].cmd) = 6
               /\ trace[i].cmd[1] \in {"pwsh", "powershell"}
               /\ SubSeq(trace[i].cmd, 2, 6) =
                     <<"-NoProfile", "-ExecutionPolicy", "Bypass", "-File", PS1_PATH>>
          ELSE trace[i].cmd = <<SH_PATH>>
    /\ \A i \in InstallerEvents("start") \cup InstallerEvents("spawn_failed") :
          \E j \in InstallerEvents("select") : j < i /\ trace[j].cmd = trace[i].cmd
    /\ Cardinality(InstallerEvents("start") \cup InstallerEvents("spawn_failed")) <= 1

InstallerChosenByPlatformWitness ==
    /\ system = "Darwin"
    /\ pc = "done"
    /\ \E i \in InstallerEvents("start") : trace[i].cmd = <<SH_PATH>>

\* C7: on Windows the shell token is pwsh exactly when pwsh is on the search
\* path and powershell otherwise, whether or not powershell is there; on
\* other platforms the command has no shell token.
ShellChosenByPwshLookup ==
    \A i \in InstallerEvents("select") :
        IF system = "Windows"
        THEN trace[i].cmd[1] = (IF pwshOnPath THEN "pwsh" ELSE "powershell")
        ELSE trace[i].cmd[1] \notin {"pwsh", "powershell"}

ShellChosenByPwshLookupWitness ==
    /\ system = "Windows"
    /\ pwshOnPath
    /\ powershellOnPath
    /\ \E i \in InstallerEvents("start") : trace[i].cmd[1] = "pwsh"

\* C8: at most one child is alive at a time; cmake is started only after
\* the installer child was started and exited, and after the warning if
\* one is written.
StrictlySequential ==
    /\ Cardinality(running) <= 1
    /\ \A i \in CmakeEvents("start") :
          /\ \E j \in InstallerEvents("start") :
                \E k \in InstallerEvents("exit") : j < k /\ k < i
          /\ \A w \in Indices(trace) : trace[w].ev = "warning" => w < i
          /\ InstallerFailed => \E w \in Indices(trace) : trace[w].ev = "warning"

StrictlySequentialWitness ==
    /\ running = {CmakeCommand}
    /\ InstallerFailed
    /\ WarningCount = 1

\* C9: run() is called at most once for the installer and at most once for
\* cmake, each child is started at most once, and the cmake command is
\* always cmake -Bbuild -DCMAKE_EXPORT_COMPILE_COMMANDS=ON.
NoRetries ==
    /\ Cardinality(InstallerCalls) <= 1
    /\ Cardinality(CmakeCalls) <= 1
    /\ Cardinality(InstallerEvents("start")) <= 1
    /\ Cardinality(CmakeEvents("start")) <= 1
    /\ Len(calls) <= 2
    /\ \A i \in Indices(calls) \ InstallerCalls :
          calls[i].cmd = <<"cmake", "-Bbuild", "-DCMAKE_EXPORT_COMPILE_COMMANDS=ON">>
    /\ \A c \in running : IsCmake(c) =>
          c = <<"cmake", "-Bbuild", "-DCMAKE_EXPORT_COMPILE_COMMANDS=ON">>
    /\ pc \in {"main_return"} => Len(calls) = 2

NoRetriesWitness ==
    /\ pc = "done"
    /\ system = "Windows"
    /\ InstallerFailed
    /\ CmakeFailed
    /\ Len(calls) = 2

\* C10: a call of run() whose child exited returns normally exactly when
\* the exit code is 0 or allow_failure is true, and otherwise raises
\* CalledProcessError with the child's exit code and the command.
RunContract ==
    \A i \in Indices(calls) : calls[i].launched =>
        /\ calls[i].raised = NoException
              <=> (calls[i].returncode = 0 \/ calls[i].allow_failure)
        /\ calls[i].raised # NoException =>
              calls[i].raised = CalledProcessError(calls[i].returncode, calls[i].cmd)

RunContractWitness ==
    /\ Len(calls) = 2
    /\ calls[1].allow_failure /\ calls[1].returncode = 3 /\ calls[1].raised = NoException
    /\ ~calls[2].allow_failure /\ calls[2].returncode = 2
    /\ calls[2].raised.type = "CalledProcessError"
====
